---- MODULE Spec2Model ----
(***************************************************************************)
(* BookNest front end: the room filter of the Context store                *)
(* (src/src/Context.js) and the RoomsFilter component that drives it       *)
(* (second module of src/src/components/dashboards/AdminDashboard.js).     *)
(*                                                                         *)
(* JavaScript values are modelled by what the code does with them:         *)
(*   - a string the code parses is a sequence of one-character strings;    *)
(*   - a number is a record [k, v]: k = "fin" (the integer v), "nan",      *)
(*     "pinf" or "ninf", so that NaN and the infinities Math.min/Math.max  *)
(*     and parseFloat produce compare as they do in JavaScript;            *)
(*   - price_per_night, which the code holds as a number (after the load   *)
(*     and after clearAllFilters) or as a string (from the range input),   *)
(*     is a record [t, n, s];                                              *)
(*   - a date input's value is a day number, NoDate for the empty string.  *)
(***************************************************************************)
EXTENDS Integers, Sequences, FiniteSets, TLC

\* ------------------------------------------------------------------ bounds
\* most rooms in a catalog response
MaxRooms == 3
\* most ids in the available_rooms list of an availability response
MaxAvail == 1
\* date inputs range over the days 1..MaxDay
MaxDay == 3
\* most availability requests outstanding at a time
MaxQueries == 2
\* most RoomsFilter instances mounted in one behaviour
MaxInst == 2
\* the clock runs over 1..MaxTime
MaxTime == 2
\* most login requests outstanding at a time
MaxLogins == 1
\* most fetchUserRole calls outstanding at a time
MaxFetches == 1
\* most makeRequest calls accepted in one behaviour
MaxCalls == 4

\* ------------------------------------------------------- JavaScript numbers
Fin(n) == [k |-> "fin", v |-> n]
NaN == [k |-> "nan", v |-> 0]
PosInf == [k |-> "pinf", v |-> 0]
NegInf == [k |-> "ninf", v |-> 0]

\* a <= b on JavaScript numbers: false as soon as one side is NaN
NumLE(a, b) ==
  IF a.k = "nan" \/ b.k = "nan" THEN FALSE
  ELSE IF a.k = "ninf" \/ b.k = "pinf" THEN TRUE
  ELSE IF a.k = "pinf" \/ b.k = "ninf" THEN FALSE
  ELSE a.v <= b.v

\* a < b on JavaScript numbers
NumLT(a, b) ==
  IF a.k = "nan" \/ b.k = "nan" THEN FALSE
  ELSE IF a.k = b.k /\ a.k # "fin" THEN FALSE
  ELSE IF a.k = "ninf" \/ b.k = "pinf" THEN TRUE
  ELSE IF a.k = "pinf" \/ b.k = "ninf" THEN FALSE
  ELSE a.v < b.v

\* a >= b on JavaScript numbers
NumGE(a, b) == NumLE(b, a)

\* a === b on JavaScript numbers: NaN equals nothing
NumEq(a, b) == a.k # "nan" /\ b.k # "nan" /\ a = b

\* truthiness of a number: 0 and NaN are falsy
NumTruthy(a) == ~(a.k = "nan" \/ (a.k = "fin" /\ a.v = 0))

\* x || 0 on a number
OrZero(a) == IF NumTruthy(a) THEN a ELSE Fin(0)

SeqMin(xs) == CHOOSE m \in {xs[i].v : i \in DOMAIN xs} :
                \A j \in DOMAIN xs : m <= xs[j].v
SeqMax(xs) == CHOOSE m \in {xs[i].v : i \in DOMAIN xs} :
                \A j \in DOMAIN xs : m >= xs[j].v

\* Math.min(...xs): Infinity for no argument, NaN when an argument is NaN
MathMin(xs) ==
  IF xs = <<>> THEN PosInf
  ELSE IF \E i \in DOMAIN xs : xs[i].k = "nan" THEN NaN
  ELSE Fin(SeqMin(xs))

\* Math.max(...xs): -Infinity for no argument, NaN when an argument is NaN
MathMax(xs) ==
  IF xs = <<>> THEN NegInf
  ELSE IF \E i \in DOMAIN xs : xs[i].k = "nan" THEN NaN
  ELSE Fin(SeqMax(xs))

\* ------------------------------------------------------- JavaScript strings
Digits == {"0", "1", "2", "3", "4", "5", "6", "7", "8", "9"}

DigitVal(c) ==
  CASE c = "0" -> 0 [] c = "1" -> 1 [] c = "2" -> 2 [] c = "3" -> 3
    [] c = "4" -> 4 [] c = "5" -> 5 [] c = "6" -> 6 [] c = "7" -> 7
    [] c = "8" -> 8 [] c = "9" -> 9

DigitChar(d) ==
  CASE d = 0 -> "0" [] d = 1 -> "1" [] d = 2 -> "2" [] d = 3 -> "3"
    [] d = 4 -> "4" [] d = 5 -> "5" [] d = 6 -> "6" [] d = 7 -> "7"
    [] d = 8 -> "8" [] d = 9 -> "9"

\* the longest prefix of s made of digits
RECURSIVE DigitPrefix(_)
DigitPrefix(s) ==
  IF s = <<>> \/ Head(s) \notin Digits THEN <<>>
  ELSE <<Head(s)>> \o DigitPrefix(Tail(s))

\* the value of a string of digits
RECURSIVE DigitsValue(_)
DigitsValue(s) ==
  IF s = <<>> THEN 0
  ELSE 10 * DigitsValue(SubSeq(s, 1, Len(s) - 1)) + DigitVal(s[Len(s)])

\* parseFloat(s) / parseInt(s) for a string without sign, point or exponent:
\* the leading digits, NaN when there is none
ParseNumber(s) ==
  IF DigitPrefix(s) = <<>> THEN NaN ELSE Fin(DigitsValue(DigitPrefix(s)))

\* String(n) for a natural number
RECURSIVE NumberToString(_)
NumberToString(n) ==
  IF n < 10 THEN <<DigitChar(n)>>
  ELSE NumberToString(n \div 10) \o <<DigitChar(n % 10)>>

\* s.replace(/,/g, '')
StripCommas(s) == SelectSeq(s, LAMBDA c : c # ",")

\* s.replace(/[^\d]/g, '')
KeepDigits(s) == SelectSeq(s, LAMBDA c : c \in Digits)

\* mutant: the thousands separators are not removed before parseFloat
RoomPrice_NoStrip(room) == ParseNumber(room.price_per_night)

\* parseFloat(room.price_per_night.replace(/,/g, ''))
RoomPrice(room) == ParseNumber(StripCommas(room.price_per_night))

\* parseInt(room.room_size.toString().replace(/[^\d]/g, '')) || 0
RoomSize(room) == OrZero(ParseNumber(KeepDigits(room.room_size)))

\* parseInt(x) of a number x: String(x) is parsed, so Infinity and NaN give NaN
ParseIntOfNumber(x) == IF x.k = "fin" THEN x ELSE NaN

\* ------------------------------------------- values held in price_per_night
JsNum(n) == [t |-> "num", n |-> n, s |-> <<>>]
JsStr(s) == [t |-> "str", n |-> Fin(0), s |-> s]

\* truthiness: a number as above, a string when it is not empty
JsTruthy(x) == IF x.t = "num" THEN NumTruthy(x.n) ELSE x.s # <<>>

\* parseFloat(x): a number is converted to its string and parsed back
JsParseFloat(x) == IF x.t = "num" THEN x.n ELSE ParseNumber(x.s)

\* ---------------------------------------------------------------- the data
ALL == <<"a", "l", "l">>

\* rooms the backend may return (GET /hotel/get_room_list/)
Room1 == [id |-> 1, category_name |-> "Deluxe", capacity |-> 2,
          price_per_night |-> <<"1", ",", "0", "0", "5">>,
          room_size |-> <<"5", "0", "m">>, is_booked |-> FALSE]
Room2 == [id |-> 2, category_name |-> "Standard", capacity |-> 4,
          price_per_night |-> <<"1", ",", "0", "0", "0">>,
          room_size |-> <<"3", "5">>, is_booked |-> TRUE]
Room3 == [id |-> 3, category_name |-> "Deluxe", capacity |-> 10,
          price_per_night |-> <<"1", ",", "0", "2", "0">>,
          room_size |-> <<"N", "A">>, is_booked |-> TRUE]
Room4 == [id |-> 4, category_name |-> "Standard", capacity |-> 2,
          price_per_night |-> <<"N", "A">>,
          room_size |-> <<"4", "0", "m">>, is_booked |-> FALSE]
RoomPool == {Room1, Room2, Room3}
RoomIds == {r.id : r \in RoomPool \cup {Room4}}

\* sequences without repetition over S, of length at most n
SeqsUpTo(S, n) ==
  UNION {{s \in [1..m -> S] : \A i, j \in 1..m : i # j => s[i] # s[j]} :
         m \in 0..n}

\* a catalog response with a room whose price is not a number
MalformedCatalog == <<Room1, Room4>>

\* the catalog responses: lists of distinct rooms
Catalogs == SeqsUpTo(RoomPool, MaxRooms) \cup {MalformedCatalog}

\* the catalog response the component is run against
UICatalogs == {<<Room1, Room2>>}

\* the available_rooms id lists of an availability response
AvailIds == {1, 2}
AvailLists == SeqsUpTo(AvailIds, MaxAvail)

Range(s) == {s[i] : i \in DOMAIN s}

\* xs.map(f)
Map(xs, f(_)) == [i \in DOMAIN xs |-> f(xs[i])]

\* dateFilteredRoomIds: null or a list of ids
NullIds == [isNull |-> TRUE, ids |-> <<>>]
IdList(ids) == [isNull |-> FALSE, ids |-> ids]

\* date input values
NoDate == 0
Days == 1..MaxDay
\* the current date
Today == 2
MsPerDay == 86400000
\* new Date(d).getTime() of a 'YYYY-MM-DD' value
DateTime(d) == d * MsPerDay

VARIABLES
  rooms, sortedRooms, loading, category_name, capacity, price_per_night,
  maxPrice, minPrice, maxRoomSize, minRoomSize, reserved,
  dateFilteredRoomIds,
  catalogFetch,
  dateFilter, availabilityLoading, inst,
  requests,
  lastOp, alertMsg

ctx == <<rooms, sortedRooms, loading, category_name, capacity,
         price_per_night, maxPrice, minPrice, maxRoomSize, minRoomSize,
         reserved, dateFilteredRoomIds>>
local == <<dateFilter, availabilityLoading, inst>>

\* the session: the Context's authentication state, the localStorage keys
\* access-token, user_role and is_admin, the login and fetchUserRole calls
\* that are outstanding, the operation that last set or ended the session and
\* the time it did, and what ProtectedRoute last rendered
VARIABLES
  isUserAuthenticated, token, isAdmin, userRole,
  lsToken, lsRole, lsIsAdmin,
  logins, roleFetches,
  sessionOp, sessionAt,
  view

\* Date.now()
VARIABLE now

\* one BookingComponent: its state, the message isValid wrote into the form,
\* the booking POSTs in flight, and the browser's getTimezoneOffset in ms
VARIABLES isSubmitting, bookingSuccess, data, formError, posts, tz

authv == <<isUserAuthenticated, token, isAdmin, userRole, lsToken, lsRole,
           lsIsAdmin, logins, roleFetches, sessionOp, sessionAt, view>>
\* the checked-in rooms of the Context: the list, the searched list, the
\* search key, the GET requests of setCheckedInRooms that are outstanding and
\* the room ids whose check-out POST is outstanding
VARIABLES checkedInRooms, filteredCheckedInRooms, searchKey, ciFetches,
          checkouts

\* one component that uses useRateLimit: the hook's requests state with the
\* queued updates applied, the requests array the closures of the last render
\* hold, and what makeRequest last returned
VARIABLES rlRequests, rlSeen, rlResult

bookv == <<isSubmitting, bookingSuccess, data, formError, posts, tz>>
searchv == <<checkedInRooms, filteredCheckedInRooms, searchKey, ciFetches,
             checkouts>>
ratev == <<rlRequests, rlSeen, rlResult>>
rest == <<bookv, searchv, ratev>>
ext == <<authv, now, rest>>
vars == <<ctx, catalogFetch, local, requests, lastOp, alertMsg, ext>>

\* ------------------------------------------------------------- the session
\* the values of a token: null (no localStorage key, no access field), the
\* empty string, a string whose second segment is not base64 JSON, a token
\* whose payload has no exp field, a token whose payload has exp e
NullToken == [k |-> "null", exp |-> 0]
EmptyToken == [k |-> "empty", exp |-> 0]
BadToken == [k |-> "bad", exp |-> 0]
NoExpToken == [k |-> "noexp", exp |-> 0]
Jwt(e) == [k |-> "jwt", exp |-> e]

\* truthiness of a token value
TokenTruthy(t) == t.k \notin {"null", "empty"}

\* isTokenExpired(token) at time t: true for no token and when decoding the
\* payload throws; payload.exp < currentTime otherwise, which is false when
\* exp is undefined
isTokenExpired(t, time) ==
  IF ~TokenTruthy(t) THEN TRUE
  ELSE IF t.k = "bad" THEN TRUE
  ELSE IF t.k = "noexp" THEN FALSE
  ELSE t.exp < time

\* the tokens localStorage may hold at page load, and a login response may
\* carry in access
StoredTokens == {NullToken, BadToken, NoExpToken} \cup {Jwt(e) : e \in 0..MaxTime}

\* userRole: null or a role name
NoRole == "null"
\* the roles the profile endpoint reports
ServerRoles == {"admin", "staff", "guest"}
\* the fallback of fetchUserRole
GuestRole == "guest"

\* nothing rendered since the session state last changed
NoView == [kind |-> "none", to |-> "", roles |-> <<>>, fallback |-> ""]

\* --------------------------------------------------- Context.filterRooms
\* mutant: an empty id list is taken for no overlay
OverlayStep_EmptyIsNull(list, ids) ==
  IF ~ids.isNull /\ ids.ids # <<>>
  THEN SelectSeq(list, LAMBDA room : room.id \in Range(ids.ids))
  ELSE list

\* if (dateFilteredRoomIds !== null) filter by dateFilteredRoomIds.includes
OverlayStep(list, ids) ==
  IF ~ids.isNull
  THEN SelectSeq(list, LAMBDA room : room.id \in Range(ids.ids))
  ELSE list

\* mutant: the "all" sentinel is not tested
CategoryStep_NoAll(list, cat) ==
  SelectSeq(list, LAMBDA room : room.category_name = cat)

\* if (category_name !== "all") filter by room.category_name === category_name
CategoryStep(list, cat) ==
  IF cat # "all"
  THEN SelectSeq(list, LAMBDA room : room.category_name = cat)
  ELSE list

\* mutant: > instead of >=
CapacityStep_Strict(list, cap) ==
  IF cap # <<>> /\ cap # ALL
  THEN SelectSeq(list, LAMBDA room :
                   NumLT(ParseNumber(cap), Fin(room.capacity)))
  ELSE list

\* if (capacity && capacity !== "all") filter by capacity >= parseInt(capacity)
CapacityStep(list, cap) ==
  IF cap # <<>> /\ cap # ALL
  THEN SelectSeq(list, LAMBDA room :
                   NumGE(Fin(room.capacity), ParseNumber(cap)))
  ELSE list

\* if (price_per_night) filter by roomPrice <= parseFloat(price_per_night)
PriceStep(list, price) ==
  IF JsTruthy(price)
  THEN SelectSeq(list, LAMBDA room :
                   NumLE(RoomPrice(room), JsParseFloat(price)))
  ELSE list

\* parseInt(maxRoomSize) || 999
FallbackMaxSize == 999

\* if (minRoomSize && maxRoomSize) filter by minSize <= size <= maxSize
SizeStep(list, minSz, maxSz) ==
  IF NumTruthy(minSz) /\ NumTruthy(maxSz)
  THEN LET minSize == OrZero(ParseIntOfNumber(minSz))
           maxSize == IF NumTruthy(ParseIntOfNumber(maxSz))
                      THEN ParseIntOfNumber(maxSz)
                      ELSE Fin(FallbackMaxSize)
       IN SelectSeq(list, LAMBDA room :
                      NumGE(RoomSize(room), minSize) /\
                      NumLE(RoomSize(room), maxSize))
  ELSE list

\* mutant: the toggle keeps the booked rooms
AvailabilityStep_Booked(list, res) ==
  IF res
  THEN SelectSeq(list, LAMBDA room : room.is_booked = TRUE)
  ELSE list

\* if (reserved) filter by room.is_booked === false
AvailabilityStep(list, res) ==
  IF res
  THEN SelectSeq(list, LAMBDA room : room.is_booked = FALSE)
  ELSE list

\* mutant: the surviving rooms are stored last room first
FilterRooms_Reversed(rms, cat, cap, price, minSz, maxSz, res, ids) ==
  LET kept == AvailabilityStep(
                SizeStep(
                  PriceStep(
                    CapacityStep(
                      CategoryStep(
                        OverlayStep(rms, ids), cat), cap), price),
                  minSz, maxSz), res)
  IN [i \in DOMAIN kept |-> kept[Len(kept) + 1 - i]]

\* the list filterRooms stores in sortedRooms
FilterRooms(rms, cat, cap, price, minSz, maxSz, res, ids) ==
  AvailabilityStep(
    SizeStep(
      PriceStep(
        CapacityStep(
          CategoryStep(
            OverlayStep(rms, ids), cat), cap), price), minSz, maxSz), res)

\* ------------------------------------------------------------------- Init
\* the constructor's session state over a localStorage that holds the token
\* t, the role r and the is_admin flag a
InitSession(t, r, a) ==
  /\ isUserAuthenticated = FALSE
  /\ token = EmptyToken
  /\ isAdmin = FALSE
  /\ userRole = NoRole
  /\ lsToken = t
  /\ lsRole = r
  /\ lsIsAdmin = a
  /\ logins = 0
  /\ roleFetches = 0
  /\ sessionOp = "init"
  /\ sessionAt = 0
  /\ view = NoView

\* the form of a BookingComponent as it mounts
EmptyForm ==
  [email |-> <<>>, phone_number |-> <<>>, checking_date |-> NoDate,
   checkout_date |-> NoDate]

\* a BookingComponent as it mounts in a browser whose time zone offset is z
InitBooking(z) ==
  /\ isSubmitting = FALSE
  /\ bookingSuccess = FALSE
  /\ data = EmptyForm
  /\ formError = ""
  /\ posts = 0
  /\ tz = z

\* the constructor's checked-in rooms
InitSearch ==
  /\ checkedInRooms = <<>>
  /\ filteredCheckedInRooms = <<>>
  /\ searchKey = <<>>
  /\ ciFetches = 0
  /\ checkouts = {}

\* useRateLimit as its component mounts
InitRate ==
  /\ rlRequests = <<>>
  /\ rlSeen = <<>>
  /\ rlResult = "none"

\* the constructor's state but for the session
InitStore ==
  /\ rooms = <<>>
  /\ sortedRooms = <<>>
  /\ loading = TRUE
  /\ category_name = "all"
  /\ capacity = ALL
  /\ price_per_night = JsNum(Fin(0))
  /\ maxPrice = Fin(0)
  /\ minPrice = Fin(0)
  /\ maxRoomSize = Fin(0)
  /\ minRoomSize = Fin(0)
  /\ reserved = FALSE
  /\ dateFilteredRoomIds = NullIds
  /\ catalogFetch = "pending"
  /\ dateFilter = [checkIn |-> NoDate, checkOut |-> NoDate,
                   isFiltering |-> FALSE]
  /\ availabilityLoading = FALSE
  /\ inst = 1
  /\ requests = {}
  /\ lastOp = "init"
  /\ alertMsg = ""

\* the state after construction over an empty localStorage
Init ==
  /\ InitStore
  /\ InitSession(NullToken, NoRole, FALSE)
  /\ now = 1
  /\ InitBooking(0)
  /\ InitSearch
  /\ InitRate

\* -------------------------------------------- Context.componentDidMount
\* the second then of componentDidMount: setCheckedInRooms is called, and
\* sends its GET, when this.state.isAdmin is true; the setState of the first
\* then may or may not be applied when it is read
MountCheckedIn ==
  /\ \E seen \in {isAdmin, isAdmin'} :
       ciFetches' = IF seen THEN ciFetches + 1 ELSE ciFetches
  /\ UNCHANGED <<checkedInRooms, filteredCheckedInRooms, searchKey, checkouts>>

\* the session part of the response handler: the token of localStorage is
\* validated, an expired one clears the storage, the role read from
\* localStorage is stored as it was read, and fetchUserRole is called when
\* the token is valid and no role is stored
RestoreSession ==
  LET valid == TokenTruthy(lsToken) /\ ~isTokenExpired(lsToken, now)
      expired == TokenTruthy(lsToken) /\ isTokenExpired(lsToken, now)
  IN /\ isUserAuthenticated' = valid
     /\ token' = lsToken
     /\ isAdmin' = (valid /\ lsIsAdmin)
     /\ userRole' = lsRole
     /\ roleFetches' =
          IF valid /\ lsRole = NoRole THEN roleFetches + 1 ELSE roleFetches
     /\ lsToken' = IF expired THEN NullToken ELSE lsToken
     /\ lsRole' = IF expired THEN NoRole ELSE lsRole
     /\ lsIsAdmin' = IF expired THEN FALSE ELSE lsIsAdmin
     /\ sessionOp' = "componentDidMount"
     /\ sessionAt' = now
     /\ view' = NoView
     /\ UNCHANGED logins

\* the catalog request resolves with roomsData
CatalogResolved(roomsData) ==
  /\ catalogFetch = "pending"
  /\ catalogFetch' = "resolved"
  /\ rooms' = roomsData
  /\ sortedRooms' = roomsData
  /\ minPrice' = MathMin(Map(roomsData, RoomPrice))
  /\ maxPrice' = MathMax(Map(roomsData, RoomPrice))
  /\ price_per_night' = JsNum(maxPrice')
  /\ maxRoomSize' = MathMax(Map(roomsData, RoomSize))
  /\ minRoomSize' = MathMin(Map(roomsData, RoomSize))
  /\ loading' = FALSE
  /\ lastOp' = "componentDidMount"
  /\ alertMsg' = ""
  /\ UNCHANGED <<category_name, capacity, reserved, dateFilteredRoomIds,
                 local, requests>>
  /\ RestoreSession
  /\ MountCheckedIn
  /\ UNCHANGED <<now, bookv, ratev>>

\* mutant: the failed catalog request is sent again
CatalogRejected_Retry ==
  /\ catalogFetch \in {"pending", "rejected"}
  /\ catalogFetch' = IF catalogFetch = "pending" THEN "rejected" ELSE "pending"
  /\ loading' = FALSE
  /\ lastOp' = "componentDidMountCatch"
  /\ alertMsg' = ""
  /\ UNCHANGED <<rooms, sortedRooms, category_name, capacity, price_per_night,
                 maxPrice, minPrice, maxRoomSize, minRoomSize, reserved,
                 dateFilteredRoomIds, local, requests>>
  /\ UNCHANGED ext

\* mutant: the promise chain has no .catch
CatalogRejected_NoCatch ==
  /\ catalogFetch = "pending"
  /\ catalogFetch' = "rejected"
  /\ lastOp' = "componentDidMountCatch"
  /\ alertMsg' = ""
  /\ UNCHANGED <<ctx, local, requests>>
  /\ UNCHANGED ext

\* the catalog request fails: .catch sets loading to false
CatalogRejected ==
  /\ catalogFetch = "pending"
  /\ catalogFetch' = "rejected"
  /\ loading' = FALSE
  /\ lastOp' = "componentDidMountCatch"
  /\ alertMsg' = ""
  /\ UNCHANGED <<rooms, sortedRooms, category_name, capacity, price_per_night,
                 maxPrice, minPrice, maxRoomSize, minRoomSize, reserved,
                 dateFilteredRoomIds, local, requests>>
  /\ UNCHANGED ext

\* ------------------------------------------------- Context.handleChange
\* mutant: a predicate change also drops the overlay
handleChange_ResetsOverlay(name, value) ==
  /\ category_name' = IF name = "category_name" THEN value ELSE category_name
  /\ capacity' = IF name = "capacity" THEN value ELSE capacity
  /\ price_per_night' =
       IF name = "price_per_night" THEN value ELSE price_per_night
  /\ reserved' = IF name = "reserved" THEN value ELSE reserved
  /\ dateFilteredRoomIds' = NullIds
  /\ sortedRooms' = FilterRooms(rooms, category_name', capacity',
                                price_per_night', minRoomSize, maxRoomSize,
                                reserved', dateFilteredRoomIds')
  /\ lastOp' = "handleChange"
  /\ alertMsg' = ""
  /\ UNCHANGED <<rooms, loading, maxPrice, minPrice, maxRoomSize, minRoomSize,
                 catalogFetch, local, requests>>
  /\ UNCHANGED ext

\* setState({[name]: value}, this.filterRooms)
handleChange(name, value) ==
  /\ category_name' = IF name = "category_name" THEN value ELSE category_name
  /\ capacity' = IF name = "capacity" THEN value ELSE capacity
  /\ price_per_night' =
       IF name = "price_per_night" THEN value ELSE price_per_night
  /\ reserved' = IF name = "reserved" THEN value ELSE reserved
  /\ sortedRooms' = FilterRooms(rooms, category_name', capacity',
                                price_per_night', minRoomSize, maxRoomSize,
                                reserved', dateFilteredRoomIds)
  /\ lastOp' = "handleChange"
  /\ alertMsg' = ""
  /\ UNCHANGED <<rooms, loading, maxPrice, minPrice, maxRoomSize, minRoomSize,
                 dateFilteredRoomIds, catalogFetch, local, requests>>
  /\ UNCHANGED ext

\* mutant: null does not replace an id list already held
filterByDateAvailability_KeepsOnNull(availableRoomIds) ==
  /\ dateFilteredRoomIds' =
       IF availableRoomIds.isNull THEN dateFilteredRoomIds
       ELSE availableRoomIds
  /\ sortedRooms' = FilterRooms(rooms, category_name, capacity,
                                price_per_night, minRoomSize, maxRoomSize,
                                reserved, dateFilteredRoomIds')
  /\ UNCHANGED <<rooms, loading, category_name, capacity, price_per_night,
                 maxPrice, minPrice, maxRoomSize, minRoomSize, reserved>>

\* Context.filterByDateAvailability:
\* setState({dateFilteredRoomIds: availableRoomIds}, this.filterRooms)
filterByDateAvailability(availableRoomIds) ==
  /\ dateFilteredRoomIds' = availableRoomIds
  /\ sortedRooms' = FilterRooms(rooms, category_name, capacity,
                                price_per_night, minRoomSize, maxRoomSize,
                                reserved, dateFilteredRoomIds')
  /\ UNCHANGED <<rooms, loading, category_name, capacity, price_per_night,
                 maxPrice, minPrice, maxRoomSize, minRoomSize, reserved>>

\* mutant: the overlay is not reset
clearAllFilters_KeepsOverlay ==
  /\ category_name' = "all"
  /\ capacity' = ALL
  /\ price_per_night' = JsNum(maxPrice)
  /\ reserved' = FALSE
  /\ sortedRooms' = FilterRooms(rooms, category_name', capacity',
                                price_per_night', minRoomSize, maxRoomSize,
                                reserved', dateFilteredRoomIds)
  /\ lastOp' = "clearAllFilters"
  /\ alertMsg' = ""
  /\ UNCHANGED <<rooms, loading, maxPrice, minPrice, maxRoomSize, minRoomSize,
                 dateFilteredRoomIds, catalogFetch, local, requests>>
  /\ UNCHANGED ext

\* Context.clearAllFilters
clearAllFilters ==
  /\ category_name' = "all"
  /\ capacity' = ALL
  /\ price_per_night' = JsNum(maxPrice)
  /\ reserved' = FALSE
  /\ dateFilteredRoomIds' = NullIds
  /\ sortedRooms' = FilterRooms(rooms, category_name', capacity',
                                price_per_night', minRoomSize, maxRoomSize,
                                reserved', dateFilteredRoomIds')
  /\ lastOp' = "clearAllFilters"
  /\ alertMsg' = ""
  /\ UNCHANGED <<rooms, loading, maxPrice, minPrice, maxRoomSize, minRoomSize,
                 catalogFetch, local, requests>>
  /\ UNCHANGED ext

\* room.is_booked = true on the room object with this id; rooms and
\* sortedRooms hold the same objects, so the change shows in both lists
SetBooked(list, id, b) ==
  [i \in DOMAIN list |->
     IF list[i].id = id THEN [list[i] EXCEPT !.is_booked = b] ELSE list[i]]

\* mutant: rooms is rebuilt from copies, sortedRooms keeps the old objects
handleBook_Copy(id) ==
  /\ id \in {r.id : r \in Range(rooms)}
  /\ rooms' = SetBooked(rooms, id, TRUE)
  /\ lastOp' = "handleBook"
  /\ alertMsg' = ""
  /\ UNCHANGED <<sortedRooms, loading, category_name, capacity,
                 price_per_night, maxPrice, minPrice, maxRoomSize,
                 minRoomSize, reserved, dateFilteredRoomIds, catalogFetch,
                 local, requests>>
  /\ UNCHANGED ext

\* Context.handleBook
handleBook(id) ==
  /\ id \in {r.id : r \in Range(rooms)}
  /\ rooms' = SetBooked(rooms, id, TRUE)
  /\ sortedRooms' = SetBooked(sortedRooms, id, TRUE)
  /\ lastOp' = "handleBook"
  /\ alertMsg' = ""
  /\ UNCHANGED <<loading, category_name, capacity, price_per_night, maxPrice,
                 minPrice, maxRoomSize, minRoomSize, reserved,
                 dateFilteredRoomIds, catalogFetch, local, requests>>
  /\ UNCHANGED ext

\* ------------------------------------------------ RoomsFilter (component)
\* getUniqueValues(rooms, type)
getUniqueValues(rms, type) == {r[type] : r \in Range(rms)}

\* the options of the category select: "all" and the catalog's categories
CategoryOptions == {"all"} \cup getUniqueValues(rooms, "category_name")

\* the option values of the capacity select: "all" and each capacity, which
\* the DOM hands back as a string
CapacityOptions ==
  {ALL} \cup {NumberToString(c) : c \in getUniqueValues(rooms, "capacity")}

\* <input type="range" step="10">
SliderStep == 10
\* the range of an <input type="range"> whose min or max attribute is not a
\* valid number (NaN, Infinity)
RangeDefaultMin == 0
RangeDefaultMax == 100

\* the values the range input min={minPrice} max={maxPrice} step="10" can
\* take: min, min + 10, ... up to max
SliderValues ==
  LET valid == minPrice.k = "fin" /\ maxPrice.k = "fin"
      lo == IF valid THEN minPrice.v ELSE RangeDefaultMin
      hi == IF valid THEN maxPrice.v ELSE RangeDefaultMax
  IN IF hi < lo THEN {lo}
     ELSE {lo + SliderStep * k : k \in 0..((hi - lo) \div SliderStep)}

\* the change events the inputs of RoomsFilter deliver to handleChange
\* (an input fires onChange only when its value changes)
ChangeEvents ==
  {<<"category_name", c>> : c \in CategoryOptions \ {category_name}}
  \cup {<<"capacity", c>> : c \in CapacityOptions \ {capacity}}
  \cup {<<"price_per_night", JsStr(NumberToString(v))>> :
          v \in {w \in SliderValues :
                   ~NumEq(Fin(w), JsParseFloat(price_per_night))}}
  \cup {<<"reserved", ~reserved>>}

\* RoomsFilter.handleDateChange
handleDateChange(name, value) ==
  /\ value # dateFilter[name]
  /\ dateFilter' = [dateFilter EXCEPT ![name] = value]
  /\ alertMsg' = ""
  /\ UNCHANGED <<ctx, catalogFetch, availabilityLoading, inst, requests,
                 lastOp>>
  /\ UNCHANGED ext

AlertBothDates == "Please select both check-in and check-out dates"
AlertOrder == "Check-out date must be after check-in date"
AlertError == "Error checking room availability"

\* the two early returns of checkRoomAvailability
MissingDate == dateFilter.checkIn = NoDate \/ dateFilter.checkOut = NoDate
NotAfter == DateTime(dateFilter.checkIn) >= DateTime(dateFilter.checkOut)

\* the name given to the next request: the first one no outstanding request has
FreeSlot == CHOOSE n \in 1..MaxQueries :
              /\ \A r \in requests : r.n # n
              /\ \A m \in 1..(n - 1) : \E r \in requests : r.n = m

\* mutant: the order of the two dates is not checked
checkRoomAvailability_NoOrderCheck ==
  /\ UNCHANGED lastOp
  /\ IF MissingDate
     THEN /\ alertMsg' = AlertBothDates
          /\ UNCHANGED <<ctx, catalogFetch, local, requests>>
     ELSE /\ Cardinality(requests) < MaxQueries
          /\ availabilityLoading' = TRUE
          /\ dateFilter' = [dateFilter EXCEPT !.isFiltering = TRUE]
          /\ requests' = requests \cup {[n |-> FreeSlot, inst |-> inst]}
          /\ alertMsg' = ""
          /\ UNCHANGED <<ctx, catalogFetch, inst>>
  /\ UNCHANGED ext

\* RoomsFilter.checkRoomAvailability up to the await of axios.get
checkRoomAvailability ==
  /\ UNCHANGED lastOp
  /\ IF MissingDate
     THEN /\ alertMsg' = AlertBothDates
          /\ UNCHANGED <<ctx, catalogFetch, local, requests>>
     ELSE IF NotAfter
     THEN /\ alertMsg' = AlertOrder
          /\ UNCHANGED <<ctx, catalogFetch, local, requests>>
     ELSE /\ Cardinality(requests) < MaxQueries
          /\ availabilityLoading' = TRUE
          /\ dateFilter' = [dateFilter EXCEPT !.isFiltering = TRUE]
          /\ requests' = requests \cup {[n |-> FreeSlot, inst |-> inst]}
          /\ alertMsg' = ""
          /\ UNCHANGED <<ctx, catalogFetch, inst>>
  /\ UNCHANGED ext

\* the disabled attribute of the Check Availability button
CheckDisabled ==
  availabilityLoading \/ dateFilter.checkIn = NoDate
                      \/ dateFilter.checkOut = NoDate

\* a click on the Check Availability button
ClickCheckAvailability == ~CheckDisabled /\ checkRoomAvailability

\* checkRoomAvailability called on its own with a date missing, the case its
\* first early return handles and the disabled button keeps from a click
CallCheckRoomAvailability == MissingDate /\ checkRoomAvailability

\* the responses of GET /hotel/room-availability/
AvailabilityResponses ==
  {[ok |-> TRUE, success |-> TRUE,
    available_rooms |-> [i \in DOMAIN l |-> [id |-> l[i]]]] : l \in AvailLists}
  \cup {[ok |-> TRUE, success |-> FALSE, available_rooms |-> <<>>],
        [ok |-> FALSE, success |-> FALSE, available_rooms |-> <<>>]}

RoomId(room) == room.id

\* mutant: the response to a request of an instance no longer mounted is
\* dropped
AvailabilityResolved_Sequenced(req, resp) ==
  /\ req \in requests
  /\ requests' = requests \ {req}
  /\ IF resp.ok /\ resp.success /\ req.inst = inst
     THEN /\ filterByDateAvailability(IdList(Map(resp.available_rooms, RoomId)))
          /\ lastOp' = "filterByDateAvailability"
          /\ alertMsg' = ""
     ELSE /\ alertMsg' = IF resp.ok /\ resp.success THEN "" ELSE AlertError
          /\ UNCHANGED <<ctx, lastOp>>
  /\ availabilityLoading' =
       IF req.inst = inst THEN FALSE ELSE availabilityLoading
  /\ UNCHANGED <<catalogFetch, dateFilter, inst>>
  /\ UNCHANGED ext

\* mutant: a failed query removes the overlay
AvailabilityResolved_ErrorClears(req, resp) ==
  /\ req \in requests
  /\ requests' = requests \ {req}
  /\ IF resp.ok /\ resp.success
     THEN /\ filterByDateAvailability(IdList(Map(resp.available_rooms, RoomId)))
          /\ lastOp' = "filterByDateAvailability"
          /\ alertMsg' = ""
     ELSE /\ filterByDateAvailability(NullIds)
          /\ alertMsg' = AlertError
          /\ UNCHANGED lastOp
  /\ availabilityLoading' =
       IF req.inst = inst THEN FALSE ELSE availabilityLoading
  /\ UNCHANGED <<catalogFetch, dateFilter, inst>>
  /\ UNCHANGED ext

\* mutant: availabilityLoading is reset after a successful response only
AvailabilityResolved_NoFinally(req, resp) ==
  /\ req \in requests
  /\ requests' = requests \ {req}
  /\ IF resp.ok /\ resp.success
     THEN /\ filterByDateAvailability(IdList(Map(resp.available_rooms, RoomId)))
          /\ lastOp' = "filterByDateAvailability"
          /\ alertMsg' = ""
     ELSE /\ alertMsg' = AlertError
          /\ UNCHANGED <<ctx, lastOp>>
  /\ availabilityLoading' =
       IF req.inst = inst /\ resp.ok /\ resp.success
         THEN FALSE ELSE availabilityLoading
  /\ UNCHANGED <<catalogFetch, dateFilter, inst>>
  /\ UNCHANGED ext

\* RoomsFilter.checkRoomAvailability after the await: the request req
\* resolves with response resp (ok FALSE: axios.get rejected)
AvailabilityResolved(req, resp) ==
  /\ req \in requests
  /\ requests' = requests \ {req}
  /\ IF resp.ok /\ resp.success
     THEN /\ filterByDateAvailability(IdList(Map(resp.available_rooms, RoomId)))
          /\ lastOp' = "filterByDateAvailability"
          /\ alertMsg' = ""
     ELSE /\ alertMsg' = AlertError
          /\ UNCHANGED <<ctx, lastOp>>
  /\ availabilityLoading' =
       IF req.inst = inst THEN FALSE ELSE availabilityLoading
  /\ UNCHANGED <<catalogFetch, dateFilter, inst>>
  /\ UNCHANGED ext

\* RoomsFilter.clearDateFilter (the button is rendered while isFiltering)
clearDateFilter ==
  /\ dateFilter.isFiltering
  /\ dateFilter' = [checkIn |-> NoDate, checkOut |-> NoDate,
                    isFiltering |-> FALSE]
  /\ filterByDateAvailability(NullIds)
  /\ lastOp' = "filterByDateAvailability"
  /\ alertMsg' = ""
  /\ UNCHANGED <<catalogFetch, availabilityLoading, inst, requests>>
  /\ UNCHANGED ext

\* RoomsFilter is unmounted and mounted again (the user leaves /rooms and
\* comes back): useState starts from its initial values
Remount ==
  /\ inst < MaxInst
  /\ inst' = inst + 1
  /\ dateFilter' = [checkIn |-> NoDate, checkOut |-> NoDate,
                    isFiltering |-> FALSE]
  /\ availabilityLoading' = FALSE
  /\ alertMsg' = ""
  /\ UNCHANGED <<ctx, catalogFetch, requests, lastOp>>
  /\ UNCHANGED ext

\* a consumer of the Context calls filterByDateAvailability: with the id list
\* of an availability response, or with null
CallFilterByDateAvailability(availableRoomIds) ==
  /\ filterByDateAvailability(availableRoomIds)
  /\ lastOp' = "filterByDateAvailability"
  /\ alertMsg' = ""
  /\ UNCHANGED <<catalogFetch, local, requests>>
  /\ UNCHANGED ext

\* ---------------------------------------------------- Context (session)
\* what the session operations leave alone
store == <<ctx, catalogFetch, local, requests, lastOp, alertMsg>>

\* the clock advances
Tick ==
  /\ now < MaxTime
  /\ now' = now + 1
  /\ UNCHANGED <<store, authv, rest>>

\* handleLogin(event, data, navigate): nothing is sent when the
\* sanitized username or the password is empty; the POST is sent otherwise
handleLogin(credentialsGiven) ==
  /\ logins < MaxLogins
  /\ logins' = IF credentialsGiven THEN logins + 1 ELSE logins
  /\ UNCHANGED <<isUserAuthenticated, token, isAdmin, userRole, lsToken,
                 lsRole, lsIsAdmin, roleFetches, sessionOp, sessionAt, view>>
  /\ UNCHANGED <<store, now, rest>>

\* the responses of the login endpoint: the request fails, or it answers with
\* a message, an access token (NullToken: none) and an is_admin flag
LoginResponses ==
  {[ok |-> FALSE, success |-> FALSE, access |-> NullToken, is_admin |-> FALSE],
   [ok |-> TRUE, success |-> FALSE, access |-> NullToken, is_admin |-> FALSE]}
  \cup [ok : {TRUE}, success : {TRUE},
        access : StoredTokens \cup {EmptyToken}, is_admin : BOOLEAN]

\* a response handleLogin accepts at time t
LoginAccepted(resp, t) ==
  /\ resp.ok
  /\ resp.success
  /\ TokenTruthy(resp.access)
  /\ ~isTokenExpired(resp.access, t)

\* mutant: the login response's token is not validated
LoginResolved_NoValidation(resp) ==
  /\ logins > 0
  /\ (resp.ok /\ resp.success) => roleFetches < MaxFetches
  /\ logins' = logins - 1
  /\ IF resp.ok /\ resp.success
       THEN /\ lsToken' = resp.access
            /\ lsIsAdmin' = resp.is_admin
            /\ isUserAuthenticated' = TRUE
            /\ token' = resp.access
            /\ isAdmin' = resp.is_admin
            /\ roleFetches' = roleFetches + 1
            /\ sessionOp' = "handleLogin"
            /\ sessionAt' = now
            /\ view' = NoView
            /\ UNCHANGED <<userRole, lsRole>>
       ELSE UNCHANGED <<isUserAuthenticated, token, isAdmin, userRole, lsToken,
                        lsRole, lsIsAdmin, roleFetches, sessionOp, sessionAt,
                        view>>
  /\ UNCHANGED <<store, now, rest>>

\* the login request settles: an accepted response is stored in localStorage
\* and in the state and fetchUserRole is called; any other response rejects
\* the promise and changes nothing
LoginResolved(resp) ==
  /\ logins > 0
  /\ LoginAccepted(resp, now) => roleFetches < MaxFetches
  /\ logins' = logins - 1
  /\ IF LoginAccepted(resp, now)
       THEN /\ lsToken' = resp.access
            /\ lsIsAdmin' = resp.is_admin
            /\ isUserAuthenticated' = TRUE
            /\ token' = resp.access
            /\ isAdmin' = resp.is_admin
            /\ roleFetches' = roleFetches + 1
            /\ sessionOp' = "handleLogin"
            /\ sessionAt' = now
            /\ view' = NoView
            /\ UNCHANGED <<userRole, lsRole>>
       ELSE UNCHANGED <<isUserAuthenticated, token, isAdmin, userRole, lsToken,
                        lsRole, lsIsAdmin, roleFetches, sessionOp, sessionAt,
                        view>>
  /\ UNCHANGED <<store, now, rest>>

\* the outcomes of the profile request of fetchUserRole: a booknest_role, a
\* profile without one, a failure
RoleResponses ==
  [ok : {TRUE}, role : ServerRoles \cup {NoRole}] \cup {[ok |-> FALSE, role |-> NoRole]}

\* the role fetchUserRole stores for a response
FetchedRole(resp) ==
  IF resp.ok /\ resp.role # NoRole THEN resp.role ELSE GuestRole

\* fetchUserRole settles: the role goes to localStorage and to the state
RoleResolved(resp) ==
  /\ roleFetches > 0
  /\ roleFetches' = roleFetches - 1
  /\ lsRole' = FetchedRole(resp)
  /\ userRole' = FetchedRole(resp)
  /\ view' = NoView
  /\ UNCHANGED <<isUserAuthenticated, token, isAdmin, lsToken, lsIsAdmin,
                 logins, sessionOp, sessionAt>>
  /\ UNCHANGED <<store, now, rest>>

\* handleLogout: clearAuthStorage, then the session state is reset
handleLogout ==
  /\ lsToken' = NullToken
  /\ lsRole' = NoRole
  /\ lsIsAdmin' = FALSE
  /\ isUserAuthenticated' = FALSE
  /\ token' = EmptyToken
  /\ isAdmin' = FALSE
  /\ userRole' = NoRole
  /\ sessionOp' = "handleLogout"
  /\ view' = NoView
  /\ UNCHANGED <<logins, roleFetches, sessionAt>>
  /\ UNCHANGED <<store, now, rest>>

\* hasAnyRole(roles): roles.includes(this.state.userRole)
hasAnyRole(roles) == \E i \in DOMAIN roles : roles[i] = userRole

\* --------------------------------------------------------- ProtectedRoute
\* the role lists the routes pass: none, and the Dashboard page's; the
\* fallback paths: the default and another
DashboardRoles == <<"admin", "manager", "staff">>
RequiredRoleSets == {<<>>, DashboardRoles}
FallbackPaths == {"/login", "/"}

\* mutant: the role list is not looked at
ProtectedRoute_NoRoleCheck(requiredRoles, fallbackPath) ==
  IF ~isUserAuthenticated
    THEN [kind |-> "navigate", to |-> fallbackPath, roles |-> requiredRoles,
          fallback |-> fallbackPath]
    ELSE [kind |-> "children", to |-> "", roles |-> requiredRoles,
          fallback |-> fallbackPath]

\* what ProtectedRoute returns
ProtectedRoute(requiredRoles, fallbackPath) ==
  IF ~isUserAuthenticated
    THEN [kind |-> "navigate", to |-> fallbackPath, roles |-> requiredRoles,
          fallback |-> fallbackPath]
  ELSE IF Len(requiredRoles) > 0 /\ ~hasAnyRole(requiredRoles)
    THEN [kind |-> "denied", to |-> "", roles |-> requiredRoles,
          fallback |-> fallbackPath]
  ELSE [kind |-> "children", to |-> "", roles |-> requiredRoles,
          fallback |-> fallbackPath]

\* a route is rendered over the current context
RenderProtectedRoute(requiredRoles, fallbackPath) ==
  /\ view' = ProtectedRoute(requiredRoles, fallbackPath)
  /\ UNCHANGED <<isUserAuthenticated, token, isAdmin, userRole, lsToken,
                 lsRole, lsIsAdmin, logins, roleFetches, sessionOp, sessionAt>>
  /\ UNCHANGED <<store, now, rest>>

\* ------------------------------------------ Context (checked-in rooms)
\* the checked-in rooms the server reports
CheckedIn1 == [room_id |-> 1, room_slug |-> <<"a", "1">>]
CheckedIn2 == [room_id |-> 2, room_slug |-> <<"a", "2">>]
CheckedIn3 == [room_id |-> 3, room_slug |-> <<"b", "1">>]
CheckedInLists == {<<>>, <<CheckedIn1, CheckedIn2, CheckedIn3>>}

\* the keys typed into the search box
SearchKeys == {<<>>, <<"a">>, <<"a", "1">>, <<"b">>, <<"1">>}

\* s.includes(k)
Includes(s, k) ==
  \E i \in 0..(Len(s) - Len(k)) : SubSeq(s, i + 1, i + Len(k)) = k

\* the GET of setCheckedInRooms settles: a response replaces both lists, a
\* failure is logged
CheckedInResolved(ok, checkedInData) ==
  /\ ciFetches > 0
  /\ ciFetches' = ciFetches - 1
  /\ IF ok
       THEN /\ checkedInRooms' = checkedInData
            /\ filteredCheckedInRooms' = checkedInData
       ELSE UNCHANGED <<checkedInRooms, filteredCheckedInRooms>>
  /\ UNCHANGED <<searchKey, checkouts>>
  /\ UNCHANGED <<store, authv, now, bookv, ratev>>

\* filterCheckedInRooms with the key just stored: a key that is not empty
\* filters the list that is already searched, the empty key restores the
\* full list
filterCheckedInRooms(key) ==
  IF key # <<>>
    THEN SelectSeq(filteredCheckedInRooms,
                   LAMBDA room : Includes(room.room_slug, key))
    ELSE checkedInRooms

\* handleSearchKey(event): the key is stored, then filterCheckedInRooms runs
handleSearchKey(value) ==
  /\ searchKey' = value
  /\ filteredCheckedInRooms' = filterCheckedInRooms(value)
  /\ lastOp' = "handleSearchKey"
  /\ alertMsg' = ""
  /\ UNCHANGED <<checkedInRooms, ciFetches, checkouts>>
  /\ UNCHANGED <<ctx, catalogFetch, local, requests>>
  /\ UNCHANGED <<authv, now, bookv, ratev>>

\* handleCheckOut(room_id): the POST is sent
handleCheckOut(room_id) ==
  /\ room_id \notin checkouts
  /\ checkouts' = checkouts \cup {room_id}
  /\ UNCHANGED <<checkedInRooms, filteredCheckedInRooms, searchKey, ciFetches>>
  /\ UNCHANGED <<store, authv, now, bookv, ratev>>

\* the check-out POST settles: on success the room's is_booked is reset in
\* place and the room leaves checkedInRooms, which also replaces
\* filteredCheckedInRooms; a failure changes nothing
CheckOutResolved(room_id, ok) ==
  /\ room_id \in checkouts
  /\ checkouts' = checkouts \ {room_id}
  /\ IF ok
       THEN LET updateCheckedInRooms ==
                  SelectSeq(checkedInRooms, LAMBDA room : room.room_id # room_id)
            IN /\ rooms' = SetBooked(rooms, room_id, FALSE)
               /\ sortedRooms' = SetBooked(sortedRooms, room_id, FALSE)
               /\ checkedInRooms' = updateCheckedInRooms
               /\ filteredCheckedInRooms' = updateCheckedInRooms
               /\ lastOp' = "handleCheckOut"
               /\ alertMsg' = ""
       ELSE UNCHANGED <<rooms, sortedRooms, checkedInRooms,
                        filteredCheckedInRooms, lastOp, alertMsg>>
  /\ UNCHANGED <<searchKey, ciFetches>>
  /\ UNCHANGED <<loading, category_name, capacity, price_per_night, maxPrice,
                 minPrice, maxRoomSize, minRoomSize, reserved,
                 dateFilteredRoomIds, catalogFetch, local, requests>>
  /\ UNCHANGED <<authv, now, bookv, ratev>>

\* ------------------------------------------------------------ useRateLimit
\* the arguments of the hook, in requests and in ticks of the clock
maxRequests == 2
timeWindow == 1

\* requests.filter(time => now - time < timeWindow) at time t
RecentRequests(list, t) == SelectSeq(list, LAMBDA time : t - time < timeWindow)

\* canMakeRequest of the last render
canMakeRequest == Len(RecentRequests(rlSeen, now)) < maxRequests

\* getRemainingRequests of the last render
getRemainingRequests ==
  LET left == maxRequests - Len(RecentRequests(rlSeen, now))
  IN IF left > 0 THEN left ELSE 0

\* makeRequest of the last render: when canMakeRequest, the time is queued
\* for the requests state and true is returned; false otherwise
makeRequest ==
  /\ Len(rlRequests) < MaxCalls
  /\ IF canMakeRequest
       THEN /\ rlRequests' = Append(rlRequests, now)
            /\ rlResult' = "true"
       ELSE /\ rlRequests' = rlRequests
            /\ rlResult' = "false"
  /\ UNCHANGED rlSeen
  /\ UNCHANGED <<store, authv, now, bookv, searchv>>

\* the component renders again after setRequests: the new closures hold the
\* updated array
RenderRateLimit ==
  /\ rlSeen # rlRequests
  /\ rlSeen' = rlRequests
  /\ UNCHANGED <<rlRequests, rlResult>>
  /\ UNCHANGED <<store, authv, now, bookv, searchv>>

\* ------------------------------------------------------- BookingComponent
\* the characters the phone pattern allows after an optional leading +
PhoneChars == Digits \cup {" ", "-", "(", ")"}

\* s.trim()
RECURSIVE TrimStart(_)
TrimStart(s) ==
  IF s # <<>> /\ Head(s) = " " THEN TrimStart(Tail(s)) ELSE s

RECURSIVE TrimEnd(_)
TrimEnd(s) ==
  IF s # <<>> /\ s[Len(s)] = " " THEN TrimEnd(SubSeq(s, 1, Len(s) - 1)) ELSE s

Trim(s) == TrimEnd(TrimStart(s))

\* /^[\+]?[0-9\s\-\(\)]{10,}$/.test(s.trim())
PhoneTest(s) ==
  LET t == Trim(s)
      body == IF t # <<>> /\ Head(t) = "+" THEN Tail(t) ELSE t
  IN /\ Len(body) >= 10
     /\ \A i \in DOMAIN body : body[i] \in PhoneChars

\* today.setHours(0, 0, 0, 0): the local midnight of the current date
LocalMidnight == DateTime(Today) + tz

\* the first check of isValid that fails, "" when none does; a date field
\* left empty gives an Invalid Date, which compares false
ValidationError(d) ==
  IF ~PhoneTest(d.phone_number) THEN "phone"
  ELSE IF /\ d.checking_date # NoDate
          /\ d.checkout_date # NoDate
          /\ DateTime(d.checkout_date) <= DateTime(d.checking_date)
    THEN "order"
  ELSE IF d.checking_date # NoDate /\ DateTime(d.checking_date) < LocalMidnight
    THEN "past"
  ELSE ""

isValid(d) == ValidationError(d) = ""

\* the phone numbers typed: none, ten digits, ten digits with a + and spaces
\* around, nine digits, ten characters with a letter
PhoneInputs ==
  {<<>>,
   <<"0", "1", "2", "3", "4", "5", "6", "7", "8", "9">>,
   <<" ", "+", "0", "1", "2", "3", "4", "5", "6", "7", "8", "9", " ">>,
   <<"0", "1", "2", "3", "4", "5", "6", "7", "8">>,
   <<"0", "1", "2", "3", "a", "5", "6", "7", "8", "9">>}

\* getTimezoneOffset() * 60000: six hours east of UTC, UTC, five hours west
TzOffsets == {0 - 21600000, 0, 18000000}

\* the room the component books
BookedRoom == Room1.id

\* the form is shown: the room's page is rendered and no booking succeeded
FormShown ==
  /\ catalogFetch = "resolved"
  /\ BookedRoom \in {r.id : r \in Range(rooms)}
  /\ ~bookingSuccess

\* onChange of the phone and date inputs
setData(name, value) ==
  /\ FormShown
  /\ data' = [data EXCEPT ![name] = value]
  /\ UNCHANGED <<isSubmitting, bookingSuccess, formError, posts, tz>>
  /\ UNCHANGED <<store, authv, now, searchv, ratev>>

\* mutant: no guard against a submission in progress
handleSubmit_NoGuard ==
  /\ FormShown
  /\ IF ~isValid(data)
       THEN /\ formError' = ValidationError(data)
            /\ UNCHANGED <<isSubmitting, posts>>
       ELSE /\ formError' = ""
            /\ isSubmitting' = TRUE
            /\ posts' = posts + 1
  /\ UNCHANGED <<bookingSuccess, data, tz>>
  /\ UNCHANGED <<store, authv, now, searchv, ratev>>

\* handleSubmit: nothing while a submission is in progress, the message of
\* isValid when the form is invalid, the POST otherwise
handleSubmit ==
  /\ FormShown
  /\ IF isSubmitting
       THEN UNCHANGED <<formError, isSubmitting, posts>>
       ELSE IF ~isValid(data)
         THEN /\ formError' = ValidationError(data)
              /\ UNCHANGED <<isSubmitting, posts>>
         ELSE /\ formError' = ""
              /\ isSubmitting' = TRUE
              /\ posts' = posts + 1
  /\ UNCHANGED <<bookingSuccess, data, tz>>
  /\ UNCHANGED <<store, authv, now, searchv, ratev>>

\* the POST settles: on success the form is emptied, context.handleBook marks
\* the room and the success view replaces the form; in both cases finally
\* resets isSubmitting
BookingResolved(ok) ==
  /\ posts > 0
  /\ posts' = posts - 1
  /\ isSubmitting' = FALSE
  /\ IF ok
       THEN /\ data' = EmptyForm
            /\ bookingSuccess' = TRUE
            /\ rooms' = SetBooked(rooms, BookedRoom, TRUE)
            /\ sortedRooms' = SetBooked(sortedRooms, BookedRoom, TRUE)
            /\ lastOp' = "handleBook"
            /\ alertMsg' = ""
       ELSE UNCHANGED <<data, bookingSuccess, rooms, sortedRooms, lastOp,
                        alertMsg>>
  /\ UNCHANGED <<formError, tz>>
  /\ UNCHANGED <<loading, category_name, capacity, price_per_night, maxPrice,
                 minPrice, maxRoomSize, minRoomSize, reserved,
                 dateFilteredRoomIds, catalogFetch, local, requests>>
  /\ UNCHANGED <<authv, now, searchv, ratev>>

\* ------------------------------------------------------------------- Next
\* the catalog load and the operations of the Context store that the inputs
\* of RoomsFilter are bound to
StoreNext(catalogs) ==
  \/ \E roomsData \in catalogs : CatalogResolved(roomsData)
  \/ CatalogRejected
  \/ \E e \in ChangeEvents : handleChange(e[1], e[2])
  \/ clearAllFilters

\* the Context store driven through the interface its provider exposes
Next ==
  \/ StoreNext(Catalogs)
  \/ \E id \in RoomIds : handleBook(id)
  \/ \E l \in AvailLists : CallFilterByDateAvailability(IdList(l))
  \/ CallFilterByDateAvailability(NullIds)

Spec == Init /\ [][Next]_vars

\* the Context store with the RoomsFilter component mounted on it, driven by
\* the catalog response, the inputs of RoomsFilter and the availability
\* responses
NextUI ==
  \/ StoreNext(UICatalogs)
  \/ \E name \in {"checkIn", "checkOut"}, value \in Days \cup {NoDate} :
       handleDateChange(name, value)
  \/ ClickCheckAvailability
  \/ \E req \in requests, resp \in AvailabilityResponses :
       AvailabilityResolved(req, resp)
  \/ clearDateFilter

SpecUI == Init /\ [][NextUI]_vars

\* the same with checkRoomAvailability also callable on its own
NextCall == NextUI \/ CallCheckRoomAvailability

SpecCall == Init /\ [][NextCall]_vars

\* the same with RoomsFilter unmounted and mounted again
NextNav == NextUI \/ Remount

SpecNav == Init /\ [][NextNav]_vars

\* the availability queries of RoomsFilter across remounts: the catalog
\* response, the date inputs, the three buttons, the availability responses
\* and the remount, the predicate inputs left at their defaults
NextRace ==
  \/ \E roomsData \in UICatalogs : CatalogResolved(roomsData)
  \/ CatalogRejected
  \/ clearAllFilters
  \/ \E name \in {"checkIn", "checkOut"}, value \in Days \cup {NoDate} :
       handleDateChange(name, value)
  \/ ClickCheckAvailability
  \/ \E req \in requests, resp \in AvailabilityResponses :
       AvailabilityResolved(req, resp)
  \/ clearDateFilter
  \/ Remount

SpecRace == Init /\ [][NextRace]_vars

\* the session: the page loads over any localStorage, the user logs in and
\* out, the role requests settle in any order, time passes, routes render
InitAuth ==
  /\ InitStore
  /\ \E t \in StoredTokens, r \in ServerRoles \cup {NoRole}, a \in BOOLEAN :
       InitSession(t, r, a)
  /\ now = 1
  /\ InitBooking(0)
  /\ InitSearch
  /\ InitRate

NextAuth ==
  \/ \E roomsData \in UICatalogs : CatalogResolved(roomsData)
  \/ CatalogRejected
  \/ Tick
  \/ \E credentialsGiven \in BOOLEAN : handleLogin(credentialsGiven)
  \/ \E resp \in LoginResponses : LoginResolved(resp)
  \/ \E resp \in RoleResponses : RoleResolved(resp)
  \/ handleLogout

SpecAuth == InitAuth /\ [][NextAuth]_vars

\* the routes: the session operations at one time, and the routes rendered
\* over every session state
NextRoute ==
  \/ \E roomsData \in UICatalogs : CatalogResolved(roomsData)
  \/ \E credentialsGiven \in BOOLEAN : handleLogin(credentialsGiven)
  \/ \E resp \in LoginResponses : LoginResolved(resp)
  \/ \E resp \in RoleResponses : RoleResolved(resp)
  \/ handleLogout
  \/ \E requiredRoles \in RequiredRoleSets, fallbackPath \in FallbackPaths :
       RenderProtectedRoute(requiredRoles, fallbackPath)

SpecRoute == InitAuth /\ [][NextRoute]_vars

\* the booking form of one room's page, in a browser of any time zone
InitBook ==
  /\ InitStore
  /\ InitSession(NullToken, NoRole, FALSE)
  /\ now = 1
  /\ \E z \in TzOffsets : InitBooking(z)
  /\ InitSearch
  /\ InitRate

NextBook ==
  \/ \E roomsData \in UICatalogs : CatalogResolved(roomsData)
  \/ \E value \in PhoneInputs : setData("phone_number", value)
  \/ \E name \in {"checking_date", "checkout_date"}, value \in Days \cup {NoDate} :
       setData(name, value)
  \/ handleSubmit
  \/ \E ok \in BOOLEAN : BookingResolved(ok)

SpecBook == InitBook /\ [][NextBook]_vars

\* the checked-in rooms of an administrator whose session is restored
InitAdmin ==
  /\ InitStore
  /\ InitSession(NoExpToken, "admin", TRUE)
  /\ now = 1
  /\ InitBooking(0)
  /\ InitSearch
  /\ InitRate

NextSearch ==
  \/ \E roomsData \in UICatalogs : CatalogResolved(roomsData)
  \/ \E ok \in BOOLEAN, checkedInData \in CheckedInLists :
       CheckedInResolved(ok, checkedInData)
  \/ \E value \in SearchKeys : handleSearchKey(value)
  \/ \E room \in Range(checkedInRooms) : handleCheckOut(room.room_id)
  \/ \E room_id \in checkouts, ok \in BOOLEAN : CheckOutResolved(room_id, ok)

SpecSearch == InitAdmin /\ [][NextSearch]_vars

\* a component calls makeRequest any number of times between its renders
\* while time passes
NextRate ==
  \/ \E roomsData \in UICatalogs : CatalogResolved(roomsData)
  \/ Tick
  \/ makeRequest
  \/ RenderRateLimit

SpecRate == Init /\ [][NextRate]_vars

\* every request that was sent settles: the availability request in slot n
\* gets its response or its network error
RequestSettles(n) ==
  \E req \in requests, resp \in AvailabilityResponses :
    req.n = n /\ AvailabilityResolved(req, resp)

\* the queries of the filter: dates are picked, queries are sent and settle,
\* the component is mounted again
NextLive ==
  \/ \E roomsData \in UICatalogs : CatalogResolved(roomsData)
  \/ \E name \in {"checkIn", "checkOut"}, value \in Days \cup {NoDate} :
       handleDateChange(name, value)
  \/ ClickCheckAvailability
  \/ \E req \in requests, resp \in AvailabilityResponses :
       AvailabilityResolved(req, resp)
  \/ Remount

\* the same under the assumption that every request settles
SpecLive ==
  /\ Init
  /\ [][NextLive]_vars
  /\ \A n \in 1..MaxQueries : WF_vars(RequestSettles(n))

\* ----------------------------------------------------------------- claims
\* the catalog request has resolved
Loaded == catalogFetch = "resolved"

\* the Context operations that end with filterRooms
FilterOps == {"handleChange", "filterByDateAvailability", "clearAllFilters"}

\* the price a room's price_per_night string stands for: its digits, the
\* thousands separators left out; NaN when it has no digit
NominalPrice(room) ==
  IF KeepDigits(room.price_per_night) = <<>> THEN NaN
  ELSE Fin(DigitsValue(KeepDigits(room.price_per_night)))

\* the predicates of the filter state, room by room
InOverlay(room) ==
  dateFilteredRoomIds.isNull \/ room.id \in Range(dateFilteredRoomIds.ids)
CategoryOK(room) ==
  category_name = "all" \/ room.category_name = category_name
\* the capacity the selected option was rendered from
CapacityFloor ==
  CHOOSE c \in getUniqueValues(rooms, "capacity") :
    NumberToString(c) = capacity
CapacityOK(room) == capacity = ALL \/ room.capacity >= CapacityFloor
PriceOK(room) == NumLE(NominalPrice(room), JsParseFloat(price_per_night))
AvailableOK(room) == ~reserved \/ room.is_booked = FALSE

\* C1: whenever an overlay is active (dateFilteredRoomIds is not null), every
\* room of sortedRooms has its id in dateFilteredRoomIds
C1_OverlayRestricts ==
  ~dateFilteredRoomIds.isNull =>
    \A i \in DOMAIN sortedRooms :
      sortedRooms[i].id \in Range(dateFilteredRoomIds.ids)

\* C2: once the catalog has loaded, clearAllFilters leaves category "all",
\* capacity "all", the price ceiling at maxPrice, reserved false, no overlay,
\* and sortedRooms equal to rooms, same elements in the same order
C2_ClearAllRestores ==
  (Loaded /\ lastOp = "clearAllFilters") =>
    /\ category_name = "all"
    /\ capacity = ALL
    /\ price_per_night = JsNum(maxPrice)
    /\ reserved = FALSE
    /\ dateFilteredRoomIds.isNull
    /\ sortedRooms = rooms

\* clearAllFilters has run on a loaded catalog of two rooms
C2_Witness ==
  Loaded /\ lastOp = "clearAllFilters" /\ Len(rooms) >= 2 /\ sortedRooms = rooms

\* C3: every element of sortedRooms is an element of rooms
C3_NoFabrication ==
  \A i \in DOMAIN sortedRooms : sortedRooms[i] \in Range(rooms)

\* a filter has left some rooms of the catalog and removed others
C3_Witness ==
  /\ Loaded /\ lastOp \in FilterOps
  /\ sortedRooms # <<>> /\ Len(sortedRooms) < Len(rooms)

\* C4: after a filter-state mutation or the catalog load, sortedRooms is the
\* overlay restriction and all predicates applied to rooms under the current
\* filter state
C4_Derived ==
  lastOp \in FilterOps \cup {"componentDidMount"} =>
    sortedRooms = FilterRooms(rooms, category_name, capacity, price_per_night,
                              minRoomSize, maxRoomSize, reserved,
                              dateFilteredRoomIds)

\* C5: after filterRooms has run, with a category c selected every room of
\* sortedRooms has category c, and every catalog room whose category fits
\* ("all" fits every room) and that passes the other filters is in sortedRooms
C5_Category ==
  lastOp \in FilterOps =>
    /\ category_name # "all" =>
         \A i \in DOMAIN sortedRooms :
           sortedRooms[i].category_name = category_name
    /\ \A r \in Range(rooms) :
         (CategoryOK(r) /\ InOverlay(r) /\ CapacityOK(r) /\ PriceOK(r)
            /\ AvailableOK(r)) => r \in Range(sortedRooms)

\* a category is selected, one room has it and another does not
C5_Witness ==
  /\ lastOp = "handleChange" /\ category_name # "all"
  /\ Len(sortedRooms) = 1 /\ Len(rooms) = 2
  /\ \E r \in Range(rooms) : r.category_name # category_name

\* C6: after filterRooms has run, with capacity N selected every room of
\* sortedRooms has capacity >= N and the capacity step removes from the
\* catalog exactly the rooms of capacity < N; with "all" it removes none
C6_Capacity ==
  lastOp \in FilterOps =>
    /\ capacity # ALL =>
         \A i \in DOMAIN sortedRooms : sortedRooms[i].capacity >= CapacityFloor
    /\ CapacityStep(rooms, capacity) = SelectSeq(rooms, CapacityOK)

\* a capacity is selected that one room reaches exactly and another does not
C6_Witness ==
  /\ lastOp = "handleChange" /\ capacity # ALL
  /\ \E r \in Range(sortedRooms) : r.capacity = CapacityFloor
  /\ \E r \in Range(rooms) : r.capacity < CapacityFloor

\* C7: with the ceiling equal to the catalog maximum the price step removes
\* no room; after filterRooms has run with the ceiling equal to the catalog
\* minimum, every room of sortedRooms has a nominal price <= that minimum
C7_PriceBounds ==
  Loaded =>
    /\ NumEq(JsParseFloat(price_per_night), maxPrice) =>
         PriceStep(rooms, price_per_night) = rooms
    /\ (lastOp \in FilterOps /\ NumEq(JsParseFloat(price_per_night), minPrice))
         => \A i \in DOMAIN sortedRooms :
              NumLE(NominalPrice(sortedRooms[i]), minPrice)

\* the slider is at the minimum: the cheapest room stays, a dearer one goes
C7_Witness ==
  /\ Loaded /\ lastOp = "handleChange"
  /\ price_per_night.t = "str"
  /\ NumEq(JsParseFloat(price_per_night), minPrice)
  /\ NumLT(minPrice, maxPrice)
  /\ category_name = "all" /\ capacity = ALL /\ ~reserved
  /\ dateFilteredRoomIds.isNull
  /\ Len(sortedRooms) = 1 /\ Len(rooms) = 2

\* C8: after filterRooms has run, with reserved true every room of sortedRooms
\* has is_booked false; with reserved false every room that passes the other
\* filters is in sortedRooms
C8_AvailableOnly ==
  lastOp \in FilterOps =>
    /\ reserved => \A i \in DOMAIN sortedRooms : sortedRooms[i].is_booked = FALSE
    /\ ~reserved =>
         \A r \in Range(rooms) :
           (CategoryOK(r) /\ InOverlay(r) /\ CapacityOK(r) /\ PriceOK(r))
             => r \in Range(sortedRooms)

\* the toggle is on: a free room is shown, a booked room is not
C8_Witness ==
  /\ lastOp = "handleChange" /\ reserved
  /\ sortedRooms # <<>>
  /\ \E r \in Range(rooms) : r.is_booked

\* C9: checkRoomAvailability with a date missing, or with check-out not after
\* check-in, issues no request, leaves dateFilteredRoomIds and sortedRooms as
\* they are, and shows an alert
C9_RejectsLocally ==
  [][(checkRoomAvailability /\ (MissingDate \/ NotAfter)) =>
       /\ requests' = requests
       /\ dateFilteredRoomIds' = dateFilteredRoomIds
       /\ sortedRooms' = sortedRooms
       /\ alertMsg' \in {AlertBothDates, AlertOrder}]_vars

\* the call with a missing date has been rejected while an overlay is active
C9_Witness ==
  /\ alertMsg = AlertBothDates
  /\ ~dateFilteredRoomIds.isNull /\ requests = {}

\* C10: checkRoomAvailability with a check-in date before today and a
\* check-out date after it issues no request and leaves the overlay as it is
C10_RejectsPastCheckIn ==
  [][(/\ checkRoomAvailability
      /\ ~MissingDate
      /\ DateTime(dateFilter.checkIn) < DateTime(Today)
      /\ DateTime(dateFilter.checkOut) > DateTime(dateFilter.checkIn)) =>
       /\ requests' = requests
       /\ dateFilteredRoomIds' = dateFilteredRoomIds]_vars

\* an availability response that is not a success: axios.get rejected
\* (network or server error) or the body has success false
Failed(resp) == ~(resp.ok /\ resp.success)

\* C11: when an availability query fails (request rejected, or a response
\* with success false), dateFilteredRoomIds and sortedRooms keep the values
\* they had and the error alert is shown
C11_FailureKeepsOverlay ==
  [][\A req \in requests, resp \in AvailabilityResponses :
       (Failed(resp) /\ AvailabilityResolved(req, resp)) =>
         /\ dateFilteredRoomIds' = dateFilteredRoomIds
         /\ sortedRooms' = sortedRooms
         /\ alertMsg' = "Error checking room availability"]_vars

\* a query has failed while an overlay set by an earlier query is active and
\* hides a room
C11_Witness ==
  /\ alertMsg = "Error checking room availability"
  /\ ~dateFilteredRoomIds.isNull
  /\ sortedRooms # <<>> /\ Len(sortedRooms) < Len(rooms)

\* the id values of the available_rooms of a response, in its order
ResponseIds(resp) ==
  [i \in DOMAIN resp.available_rooms |-> resp.available_rooms[i].id]

\* the rooms of the catalog that pass every predicate of the filter state
\* other than the overlay, in catalog order
PassingRooms ==
  SelectSeq(rooms, LAMBDA r : CategoryOK(r) /\ CapacityOK(r) /\ PriceOK(r)
                                /\ AvailableOK(r))

\* C12: when an availability query succeeds, dateFilteredRoomIds becomes the
\* list of the ids of the response's available_rooms and sortedRooms is
\* recomputed against it: it holds the rooms with an id of the list that
\* pass the other filters; a response with no room leaves an overlay that
\* is an empty list, not null, and an empty sortedRooms
C12_SuccessSetsOverlay ==
  [][\A req \in requests, resp \in AvailabilityResponses :
       (~Failed(resp) /\ AvailabilityResolved(req, resp)) =>
         /\ ~dateFilteredRoomIds'.isNull
         /\ dateFilteredRoomIds'.ids = ResponseIds(resp)
         /\ sortedRooms' =
              SelectSeq(PassingRooms,
                        LAMBDA r : r.id \in Range(ResponseIds(resp)))
         /\ resp.available_rooms = <<>> =>
              /\ dateFilteredRoomIds' # NullIds
              /\ sortedRooms' = <<>>]_vars

\* a query has succeeded with no available room on a loaded catalog: the
\* overlay is the empty list and no room is shown
C12_Witness ==
  /\ Loaded /\ lastOp = "filterByDateAvailability"
  /\ ~dateFilteredRoomIds.isNull /\ dateFilteredRoomIds.ids = <<>>
  /\ rooms # <<>> /\ sortedRooms = <<>>
  /\ category_name = "all" /\ capacity = ALL /\ ~reserved

\* the last operation on the store was filterByDateAvailability(null)
JustCleared == lastOp = "filterByDateAvailability" /\ dateFilteredRoomIds.isNull

\* C13: filterByDateAvailability(null), the store operation of
\* clearDateFilter, leaves dateFilteredRoomIds null whatever it was before,
\* and applied right after itself it changes nothing in the store
C13_ClearIdempotent ==
  [][CallFilterByDateAvailability(NullIds) =>
       /\ dateFilteredRoomIds'.isNull
       /\ JustCleared => ctx' = ctx]_vars

\* the overlay has been cleared on a loaded catalog while the availability
\* toggle hides a room
C13_Witness ==
  /\ Loaded /\ JustCleared
  /\ reserved /\ sortedRooms # <<>> /\ Len(sortedRooms) < Len(rooms)

\* C14: handleChange on category_name, capacity, price_per_night or reserved
\* leaves dateFilteredRoomIds as it is; the overlay changes only in a step of
\* filterByDateAvailability (a successful query, clearDateFilter) or of
\* clearAllFilters
C14_PredicateChangeKeepsOverlay ==
  [][/\ (\E e \in ChangeEvents : handleChange(e[1], e[2])) =>
          dateFilteredRoomIds' = dateFilteredRoomIds
     /\ dateFilteredRoomIds' # dateFilteredRoomIds =>
          lastOp' \in {"filterByDateAvailability", "clearAllFilters"}]_vars

\* a predicate has been changed on a loaded catalog while an overlay set by
\* a query is active
C14_Witness ==
  /\ Loaded /\ lastOp = "handleChange"
  /\ ~dateFilteredRoomIds.isNull /\ dateFilteredRoomIds.ids # <<>>
  /\ category_name # "all"

\* C15: once the catalog has loaded, minPrice <= price_per_night <= maxPrice
C15_CeilingInRange ==
  Loaded =>
    /\ NumLE(minPrice, JsParseFloat(price_per_night))
    /\ NumLE(JsParseFloat(price_per_night), maxPrice)

\* C16: at most one availability request is outstanding, and while one is
\* outstanding the Check Availability button is disabled
C16_SingleFlight ==
  /\ Cardinality(requests) <= 1
  /\ requests # {} => CheckDisabled

\* C17: a request that resolves successfully sets the overlay to the id list
\* of its response, whichever of the outstanding requests it is and whenever
\* it was issued, and leaves the other requests outstanding: of two
\* outstanding queries that both succeed, the one that resolves last
\* determines the overlay
C17_LastResolvedWins ==
  [][\A req \in requests, resp \in AvailabilityResponses :
       (~Failed(resp) /\ AvailabilityResolved(req, resp)) =>
         /\ dateFilteredRoomIds' = IdList(ResponseIds(resp))
         /\ requests' = requests \ {req}]_vars

\* two queries were outstanding together: the one issued second, by the
\* instance now mounted, has resolved and set the overlay, the one issued
\* first, by the instance before it, is still to resolve
C17_Witness ==
  /\ inst = 2 /\ requests = {[n |-> 1, inst |-> 1]}
  /\ dateFilter.isFiltering /\ ~availabilityLoading
  /\ lastOp = "filterByDateAvailability" /\ ~dateFilteredRoomIds.isNull
  /\ alertMsg = ""

\* C18: once the catalog request has failed, rooms and sortedRooms are
\* empty, minPrice, maxPrice, minRoomSize and maxRoomSize are 0 and loading
\* is false
C18_FetchFailure ==
  catalogFetch = "rejected" =>
    /\ rooms = <<>> /\ sortedRooms = <<>>
    /\ minPrice = Fin(0) /\ maxPrice = Fin(0)
    /\ minRoomSize = Fin(0) /\ maxRoomSize = Fin(0)
    /\ loading = FALSE

\* the catalog request has failed and the store has gone on to serve a
\* filter change
C18_Witness ==
  /\ catalogFetch = "rejected" /\ lastOp = "handleChange" /\ reserved
  /\ ~loading /\ rooms = <<>>

\* a price_per_night string that is not numeric once the thousands
\* separators are removed
Malformed(room) == NominalPrice(room).k = "nan"

\* the price of a room with a malformed price counted as 0
TolerantPrice(room) == IF Malformed(room) THEN Fin(0) ELSE NominalPrice(room)

\* C19: once a catalog with a malformed price has loaded, minPrice and
\* maxPrice are the minimum and maximum of the prices with the malformed
\* one counted as 0, and with a ceiling in [minPrice, maxPrice] the price
\* step of filterRooms keeps the room with the malformed price
C19_MalformedAsZero ==
  (Loaded /\ \E r \in Range(rooms) : Malformed(r)) =>
    /\ minPrice = MathMin(Map(rooms, TolerantPrice))
    /\ maxPrice = MathMax(Map(rooms, TolerantPrice))
    /\ (/\ NumLE(minPrice, JsParseFloat(price_per_night))
        /\ NumLE(JsParseFloat(price_per_night), maxPrice)) =>
         \A r \in Range(rooms) :
           Malformed(r) => r \in Range(PriceStep(rooms, price_per_night))

\* C20: the rooms of sortedRooms are rooms of the catalog taken in catalog
\* order, each position of rooms used at most once: sortedRooms is rooms
\* with some rooms left out, never reordered and never with a room twice
C20_CatalogOrder ==
  /\ \E f \in [DOMAIN sortedRooms -> DOMAIN rooms] :
       /\ \A i, j \in DOMAIN sortedRooms : i < j => f[i] < f[j]
       /\ \A i \in DOMAIN sortedRooms : sortedRooms[i] = rooms[f[i]]
  /\ \A i, j \in DOMAIN sortedRooms :
       i # j => sortedRooms[i].id # sortedRooms[j].id

\* filterRooms has removed the first room of a catalog and kept two rooms
\* after it
C20_Witness ==
  /\ Loaded /\ lastOp \in FilterOps
  /\ Len(rooms) >= 3 /\ Len(sortedRooms) = 2
  /\ sortedRooms[1] = rooms[2]

\* C21: once the catalog request has failed no catalog request is pending
\* again; a failed availability query leaves the set of outstanding requests
\* without its request and with no new one, and a request is only ever added
\* by a click on Check Availability
C21_NoAutomaticRetry ==
  [][/\ catalogFetch = "rejected" => catalogFetch' = "rejected"
     /\ \A req \in requests, resp \in AvailabilityResponses :
          (Failed(resp) /\ AvailabilityResolved(req, resp)) =>
            requests' = requests \ {req}
     /\ (\E r \in requests' : r \notin requests) =>
          (~CheckDisabled /\ ~MissingDate /\ ~NotAfter
             /\ availabilityLoading')]_vars

\* the catalog request and an availability query have both failed and no
\* request is outstanding
C21_Witness ==
  /\ catalogFetch = "rejected"
  /\ alertMsg = "Error checking room availability"
  /\ requests = {} /\ ~availabilityLoading /\ dateFilter.isFiltering

\* C22: with no availability query in flight, dateFilter.isFiltering is true
\* exactly when dateFilteredRoomIds is not null
C22_BadgeMatchesOverlay ==
  requests = {} => (dateFilter.isFiltering <=> ~dateFilteredRoomIds.isNull)

\* C23: whenever reserved is true, no room of sortedRooms has is_booked true
C23_NoBookedRoomShown ==
  reserved => \A i \in DOMAIN sortedRooms : sortedRooms[i].is_booked = FALSE

\* a token that is missing, cannot be decoded, or whose exp is before t
Unusable(t, time) ==
  \/ t.k \in {"null", "empty", "bad"}
  \/ t.k = "jwt" /\ t.exp < time

\* the stored session: the state's and localStorage's
session == <<isUserAuthenticated, token, isAdmin, userRole, lsToken, lsRole,
             lsIsAdmin>>

\* C24: whenever isUserAuthenticated is true, state.token is a non-empty
\* token that isTokenExpired reported as not expired when the session was
\* established, so it is not a missing, undecodable or expired token; and a
\* login response carrying such a token changes nothing of the stored session
C24_ValidTokenOnly ==
  /\ [](isUserAuthenticated =>
          /\ TokenTruthy(token)
          /\ ~isTokenExpired(token, sessionAt)
          /\ ~Unusable(token, sessionAt)
          /\ sessionOp \in {"componentDidMount", "handleLogin"})
  /\ [][\A resp \in LoginResponses :
          (LoginResolved(resp) /\ Unusable(resp.access, now)) =>
            UNCHANGED session]_vars

\* a login was accepted at a later time than the page load, with a token
\* that expires
C24_Witness ==
  /\ isUserAuthenticated
  /\ sessionOp = "handleLogin"
  /\ token.k = "jwt"
  /\ sessionAt = MaxTime
  /\ logins = 0

\* C25: after handleLogout, and until the next session is established,
\* userRole is null and localStorage holds no user_role, whatever
\* fetchUserRole calls settle in between
C25_LogoutClearsRole ==
  sessionOp = "handleLogout" => (userRole = NoRole /\ lsRole = NoRole)

\* C26: ProtectedRoute renders its children only when isUserAuthenticated is
\* true and requiredRoles is empty or holds userRole; an unauthenticated user
\* is redirected to the fallback path, an authenticated user with another
\* role (null included) sees the access-denied view, and the dashboard's
\* children are rendered for the roles admin, manager and staff only
C26_RouteGuard ==
  view # NoView =>
    /\ view.kind = "children" <=>
         /\ isUserAuthenticated
         /\ (view.roles = <<>> \/ userRole \in Range(view.roles))
    /\ view.kind = "navigate" <=> ~isUserAuthenticated
    /\ view.kind = "navigate" => view.to = view.fallback
    /\ view.kind = "denied" <=>
         /\ isUserAuthenticated
         /\ view.roles # <<>>
         /\ userRole \notin Range(view.roles)
    /\ (view.kind = "children" /\ view.roles = DashboardRoles) =>
         userRole \in {"admin", "manager", "staff"}

\* the dashboard route is denied to a logged-in user whose role is not
\* fetched yet
C26_Witness ==
  /\ view.kind = "denied"
  /\ view.roles = DashboardRoles
  /\ isUserAuthenticated
  /\ userRole = NoRole

\* a form the validation must refuse: a phone number with fewer than ten
\* digits or with a character that is no digit, separator or sign, a
\* check-out date not after the check-in date, a check-in date before today
C27_Invalid(d) ==
  \/ Len(KeepDigits(d.phone_number)) < 10
  \/ \E i \in DOMAIN d.phone_number :
       d.phone_number[i] \notin PhoneChars \cup {"+"}
  \/ /\ d.checking_date # NoDate
     /\ d.checkout_date # NoDate
     /\ d.checkout_date <= d.checking_date
  \/ d.checking_date # NoDate /\ d.checking_date < Today

C27_WitnessPast ==
  /\ formError = "past"
  /\ data.checking_date < Today
  /\ posts = 0

\* the rooms of checkedInRooms whose room_slug contains the key
C28_Matching(key) ==
  SelectSeq(checkedInRooms, LAMBDA room : Includes(room.room_slug, key))

\* filteredCheckedInRooms is the list searched by the key
C28_Searched == filteredCheckedInRooms = C28_Matching(searchKey)

\* C28: after every handleSearchKey, and after handleCheckOut,
\* filteredCheckedInRooms is checkedInRooms restricted to the rooms whose
\* room_slug contains searchKey (all of them when the key is empty)
C28_SearchResult ==
  [][/\ (\E value \in SearchKeys : handleSearchKey(value)) => C28_Searched'
     /\ (\E room_id \in checkouts : CheckOutResolved(room_id, TRUE)) =>
          C28_Searched']_vars

\* the same after handleSearchKey alone
C28_AfterSearch ==
  [][(\E value \in SearchKeys : handleSearchKey(value)) => C28_Searched']_vars

\* the same after handleCheckOut alone
C28_AfterCheckOut ==
  [][(\E room_id \in checkouts : CheckOutResolved(room_id, TRUE)) =>
       C28_Searched']_vars

\* the requests accepted within the window that ends now
C29_Accepted == Len(RecentRequests(rlRequests, now))

\* C29: at most maxRequests calls of makeRequest are accepted within any
\* timeWindow; at the limit makeRequest returns false and records nothing;
\* getRemainingRequests is maxRequests less the accepted requests of the
\* window, and never below 0
C29_RateLimit ==
  /\ [](C29_Accepted <= maxRequests)
  /\ [](getRemainingRequests >= 0)
  /\ [](getRemainingRequests = maxRequests - C29_Accepted)
  /\ [][(makeRequest /\ C29_Accepted >= maxRequests) =>
          (rlResult' = "false" /\ rlRequests' = rlRequests)]_vars

\* the first part alone: no window holds more than maxRequests accepted calls
C29_OverLimit == C29_Accepted <= maxRequests

\* C30: every availability query ends with availabilityLoading false, on a
\* successful response, on a response with success false and on a failure,
\* so a disabled Check Availability button is eventually enabled again when
\* both dates are set
C30_LoadingEnds ==
  /\ [][\A req \in requests, resp \in AvailabilityResponses :
          (AvailabilityResolved(req, resp) /\ req.inst = inst) =>
            ~availabilityLoading']_vars
  /\ availabilityLoading ~> ~availabilityLoading
  /\ (requests # {}) ~> (requests = {})

\* a query failed and the button is enabled again
C30_Witness ==
  /\ catalogFetch = "resolved"
  /\ alertMsg = AlertError
  /\ requests = {}
  /\ ~CheckDisabled

====
